---- MODULE Spec2Model ----
(***************************************************************************)
(* nox-plugin-artifact-integrity: the scan handler of src/main.go as a     *)
(* state machine.  One behaviour is a sequence of handleScan invocations   *)
(* over one unchanged file tree: the directory walk (one step per WalkDir  *)
(* callback), the per-file loop (one step per iteration, all checks of the *)
(* file included) and the context being cancelled by its owner at any      *)
(* moment.  File names, manifest lines and hashes are strings handled      *)
(* character by character, as the code handles them.                       *)
(***************************************************************************)
EXTENDS Integers, Sequences, FiniteSets, TLC

VARIABLES
    fs,         \* the file tree on disk: path -> node; unchanged during a behaviour
    req,        \* the tool request: Input["workspace_root"] and WorkspaceRoot
    ctxErr,     \* ctx.Err(): "nil", "Canceled" or "DeadlineExceeded"
    pc,         \* position of handleScan: "start", "walk", "analyze", "done"
    todo,       \* entries WalkDir has still to visit, next first
    allFiles,   \* handleScan's allFiles
    fileSet,    \* handleScan's fileSet (the keys mapped to true)
    idx,        \* index of the next element of allFiles in the per-file loop
    findings,   \* the findings handed to the response builder, in order
    walkErr,    \* what filepath.WalkDir returned: "nil", "Canceled", "DeadlineExceeded"
    broke,      \* the per-file loop left through its break
    ret,        \* what handleScan returned: [resp, err, findings]
    scanNo,     \* number of the invocation in progress
    prev        \* the results of the earlier invocations, in order

vars == <<fs, req, ctxErr, pc, todo, allFiles, fileSet, idx, findings,
          walkErr, broke, ret, scanNo, prev>>

---------------------------------------------------------------------------
(* Bounds of the model. *)

\* longest checksum manifest / go.sum, in lines
MaxLines == 2
\* most entries of the "packages" object of a package-lock.json
MaxPkgs == 2
\* invocations of handleScan in one behaviour
MaxScans == 2

---------------------------------------------------------------------------
(* Strings.  A string is handled through its one-character substrings.     *)

At(s, i) == SubSeq(s, i, i)

Drop(s, n) == SubSeq(s, n + 1, Len(s))

Take(s, n) == SubSeq(s, 1, n)

\* the characters the model's names and lines are made of, in byte order
Alphabet == " #*-./0123456789:=@ABCDEFGHIJKLMNOPQRSTUVWXYZ_abcdefghijklmnopqrstuvwxyz"

UpperLetters == "ABCDEFGHIJKLMNOPQRSTUVWXYZ"

LowerLetters == "abcdefghijklmnopqrstuvwxyz"

HexDigits == "0123456789abcdef"

Chars == {At(Alphabet, i) : i \in 1..Len(Alphabet)}

\* byte order of the characters (the relative order of their byte values)
Code == [c \in Chars |-> CHOOSE i \in 1..Len(Alphabet) : At(Alphabet, i) = c]

LowerOf == [c \in Chars |->
              IF \E i \in 1..26 : At(UpperLetters, i) = c
              THEN At(LowerLetters, CHOOSE i \in 1..26 : At(UpperLetters, i) = c)
              ELSE c]

UpperOf == [c \in Chars |->
              IF \E i \in 1..26 : At(LowerLetters, i) = c
              THEN At(UpperLetters, CHOOSE i \in 1..26 : At(LowerLetters, i) = c)
              ELSE c]

\* strings.ToLower (the string is mapped half by half, to keep the recursion shallow)
RECURSIVE ToLower(_)
ToLower(s) ==
    IF Len(s) = 0 THEN ""
    ELSE IF Len(s) = 1 THEN (IF s \in Chars THEN LowerOf[s] ELSE s)
    ELSE ToLower(Take(s, Len(s) \div 2)) \o ToLower(Drop(s, Len(s) \div 2))

\* upper-casing, used only to write manifests that declare a hash in capitals
RECURSIVE ToUpper(_)
ToUpper(s) ==
    IF Len(s) = 0 THEN ""
    ELSE IF Len(s) = 1 THEN (IF s \in Chars THEN UpperOf[s] ELSE s)
    ELSE ToUpper(Take(s, Len(s) \div 2)) \o ToUpper(Drop(s, Len(s) \div 2))

MinOf(S) == CHOOSE x \in S : \A y \in S : x <= y

MaxOf(S) == CHOOSE x \in S : \A y \in S : x >= y

\* strings.HasSuffix
HasSuffix(s, suffix) ==
    /\ Len(s) >= Len(suffix)
    /\ SubSeq(s, Len(s) - Len(suffix) + 1, Len(s)) = suffix

\* strings.HasPrefix
HasPrefix(s, prefix) ==
    /\ Len(s) >= Len(prefix)
    /\ Take(s, Len(prefix)) = prefix

\* strings.TrimPrefix: one occurrence of the prefix is removed, if present
TrimPrefix(s, prefix) == IF HasPrefix(s, prefix) THEN Drop(s, Len(prefix)) ELSE s

\* white space of the model's alphabet (regexp \s and strings.TrimSpace agree on it)
IsSpace(c) == c \in {" ", "\t", "\r"}

\* the positions of s that hold no white space
InkOf(s) == {i \in 1..Len(s) : ~IsSpace(At(s, i))}

\* s without its leading white space
TrimLeft(s) == IF InkOf(s) = {} THEN "" ELSE Drop(s, MinOf(InkOf(s)) - 1)

\* strings.TrimSpace
TrimSpace(s) == IF InkOf(s) = {} THEN "" ELSE SubSeq(s, MinOf(InkOf(s)), MaxOf(InkOf(s)))

\* a string of n copies of the character c
RECURSIVE Repeat(_, _)
Repeat(c, n) ==
    IF n <= 0 THEN ""
    ELSE IF n = 1 THEN c
    ELSE Repeat(c, n \div 2) \o Repeat(c, n - n \div 2)

\* the pieces of s between the occurrences of the character sep, empty ones included
SplitOn(s, sep) ==
    LET at  == {i \in 1..Len(s) : At(s, i) = sep}
        pos == [k \in 0..Cardinality(at) + 1 |->
                  IF k = 0 THEN 0
                  ELSE IF k = Cardinality(at) + 1 THEN Len(s) + 1
                  ELSE CHOOSE i \in at : Cardinality({j \in at : j < i}) = k - 1]
    IN  [k \in 1..Cardinality(at) + 1 |-> SubSeq(s, pos[k - 1] + 1, pos[k] - 1)]

\* byte-wise string order, the order os.ReadDir sorts directory entries in
RECURSIVE StrLess(_, _)
StrLess(a, b) ==
    IF Len(b) = 0 THEN FALSE
    ELSE IF Len(a) = 0 THEN TRUE
    ELSE IF At(a, 1) = At(b, 1) THEN StrLess(Drop(a, 1), Drop(b, 1))
    ELSE Code[At(a, 1)] < Code[At(b, 1)]

\* the elements of a finite set of strings as the sorted list os.ReadDir returns
RECURSIVE SortNames(_)
SortNames(S) ==
    IF S = {} THEN <<>>
    ELSE LET m == CHOOSE x \in S : \A y \in S \ {x} : StrLess(x, y)
         IN  <<m>> \o SortNames(S \ {m})

---------------------------------------------------------------------------
(* The fixed tables of src/main.go. *)

releaseArtifactExtensions ==
    {".tar.gz", ".tgz", ".zip", ".tar.bz2", ".tar.xz", ".deb", ".rpm", ".whl",
     ".gem", ".jar", ".war", ".apk"}

signatureExtensions == {".sig", ".asc", ".sign", ".gpg", ".minisig"}

checksumExtensions ==
    {".sha256", ".sha512", ".sha256sum", ".sha512sum", ".md5", ".md5sum"}

checksumFileNames ==
    {"SHA256SUMS", "SHA512SUMS", "CHECKSUMS", "checksums.txt", "CHECKSUMS.txt"}

lockfileNames ==
    {"package-lock.json", "yarn.lock", "go.sum", "Gemfile.lock", "poetry.lock",
     "Cargo.lock", "composer.lock"}

\* a walk that passes over version-control metadata only
skippedDirsGitOnly == {".git"}

\* lines 82-88
skippedDirs == {".git", "vendor", "node_modules", "__pycache__", ".venv"}

\* reChecksumLine: the shortest and the longest run of hex digits it accepts
ReHashMin == 32

ReHashMax == 128

\* the length of a hex-encoded SHA-256 digest, the only length that is verified
Sha256HexLen == 64

\* the length of the hash previews in the mismatch message: declaredHash[:16]
PreviewLen == 16

---------------------------------------------------------------------------
(* Paths.  A path is the sequence of its components; "ws/rel/a.zip" is     *)
(* <<"ws", "rel", "a.zip">>.                                               *)

\* filepath.Base
Base(path) == path[Len(path)]

\* filepath.Dir
Dir(path) == SubSeq(path, 1, Len(path) - 1)

\* filepath.Clean on components: "" and "." vanish, ".." removes the component
\* before it (and stays when there is none to remove)
RECURSIVE CleanComps(_, _)
CleanComps(comps, out) ==
    IF comps = <<>> THEN out
    ELSE LET c == Head(comps)
         IN  IF c = "" \/ c = "." THEN CleanComps(Tail(comps), out)
             ELSE IF c = ".." /\ out # <<>> /\ out[Len(out)] # ".."
                  THEN CleanComps(Tail(comps), SubSeq(out, 1, Len(out) - 1))
             ELSE CleanComps(Tail(comps), Append(out, c))

\* filepath.Join(dir, elem): the two joined by a separator, then cleaned
Join(dir, elem) == CleanComps(dir \o SplitOn(elem, "/"), <<>>)

---------------------------------------------------------------------------
(* The file tree.  fs maps each existing path to a node:                   *)
(*   isDir  a directory (else a regular file)                              *)
(*   ok     opening it succeeds (os.Open, os.ReadFile, os.ReadDir)         *)
(*   bytes  a file's content                                               *)
(*   json   for a JSON file, the document its bytes spell (see Unmarshal)  *)

Exists(path) == path \in DOMAIN fs

IsFile(path) == Exists(path) /\ ~fs[path].isDir

\* os.ReadFile / os.Open succeed
Readable(path) == IsFile(path) /\ fs[path].ok

\* the names os.ReadDir returns for a directory, sorted by name
ReadDir(dir) ==
    SortNames({Base(p) : p \in {q \in DOMAIN fs : Len(q) = Len(dir) + 1 /\ Dir(q) = dir}})

\* bufio's dropCR
TrimSuffixCR(s) == IF Len(s) > 0 /\ At(s, Len(s)) = "\r" THEN Take(s, Len(s) - 1) ELSE s

\* bufio.Scanner with the default split function: the lines of the text, each
\* without its line end and without one trailing carriage return; an empty
\* last line is no line
ScanLines(bytes) ==
    LET pieces == SplitOn(bytes, "\n")
        n      == IF pieces[Len(pieces)] = "" THEN Len(pieces) - 1 ELSE Len(pieces)
    IN  [k \in 1..n |-> TrimSuffixCR(pieces[k])]

---------------------------------------------------------------------------
(* SHA-256.  The digest is not computed bit by bit: Sha256Hex stands for   *)
(* hex.EncodeToString(sha256.Sum256(data)), a function of the bytes that   *)
(* yields 64 lower-case hex digits and has no collisions among the         *)
(* contents of the model (Sha256NoCollision).                              *)

RECURSIVE Sha256Mix(_, _)
Sha256Mix(data, v) ==
    IF Len(data) = 0 THEN v
    ELSE Sha256Mix(Drop(data, 1),
                   (v * 31 + (IF At(data, 1) \in Chars THEN Code[At(data, 1)] ELSE 0) + 1) % 65521)

RECURSIVE Sha256Digits(_, _, _)
Sha256Digits(v, lo, hi) ==
    IF lo > hi THEN ""
    ELSE IF lo = hi
    THEN LET nibble == (v \div (CASE lo % 4 = 0 -> 1 [] lo % 4 = 1 -> 16
                                  [] lo % 4 = 2 -> 256 [] OTHER -> 4096)) % 16
         IN  At(HexDigits, ((nibble + lo * 7) % 16) + 1)
    ELSE Sha256Digits(v, lo, (lo + hi) \div 2) \o Sha256Digits(v, (lo + hi) \div 2 + 1, hi)

Sha256Hex(data) == Sha256Digits(Sha256Mix(data, 7), 1, Sha256HexLen)

---------------------------------------------------------------------------
(* Findings: what resp.Finding(...).At(...).WithMetadata(...).Done() adds   *)
(* to the response.  metadata is the set of its key/value pairs.           *)

Finding(rule, severity, confidence, message, file, line, metadata) ==
    [rule |-> rule, severity |-> severity, confidence |-> confidence,
     message |-> message, file |-> file, startLine |-> line, endLine |-> line,
     metadata |-> metadata]

\* isReleaseArtifact: some extension of the table is a suffix of the lower-cased name
isReleaseArtifact(name) ==
    LET lower == ToLower(name)
    IN  \E ext \in releaseArtifactExtensions : HasSuffix(lower, ext)

\* hasCompanionFile: name+ext is indexed in the same directory, for some ext
hasCompanionFile(name, dir, set, extensions) ==
    \E ext \in extensions : Join(dir, name \o ext) \in set

\* checkMissingChecksum without its look for a bulk manifest (lines 198-202 left out)
checkMissingChecksumNoBulk(path, name, dir, set) ==
    IF hasCompanionFile(name, dir, set, checksumExtensions) THEN <<>>
    ELSE <<Finding("ARTINT-001", "HIGH", "HIGH",
                   "Release artifact " \o name \o " has no corresponding checksum file",
                   path, 0,
                   {<<"artifact", name>>, <<"type", "missing_checksum">>})>>

\* checkMissingChecksum, as the list of findings it adds
checkMissingChecksum(path, name, dir, set) ==
    IF hasCompanionFile(name, dir, set, checksumExtensions) THEN <<>>
    ELSE IF \E csName \in checksumFileNames : Join(dir, csName) \in set THEN <<>>
    ELSE <<Finding("ARTINT-001", "HIGH", "HIGH",
                   "Release artifact " \o name \o " has no corresponding checksum file",
                   path, 0,
                   {<<"artifact", name>>, <<"type", "missing_checksum">>})>>

\* checkUnsignedArtifact taking a checksum companion for a signature
checkUnsignedArtifactAnyCompanion(path, name, dir, set) ==
    IF hasCompanionFile(name, dir, set, signatureExtensions \cup checksumExtensions) THEN <<>>
    ELSE <<Finding("ARTINT-002", "MEDIUM", "MEDIUM",
                   "Release artifact " \o name \o " has no signature file (.sig, .asc)",
                   path, 0,
                   {<<"artifact", name>>, <<"type", "unsigned_artifact">>})>>

\* checkUnsignedArtifact, as the list of findings it adds
checkUnsignedArtifact(path, name, dir, set) ==
    IF hasCompanionFile(name, dir, set, signatureExtensions) THEN <<>>
    ELSE <<Finding("ARTINT-002", "MEDIUM", "MEDIUM",
                   "Release artifact " \o name \o " has no signature file (.sig, .asc)",
                   path, 0,
                   {<<"artifact", name>>, <<"type", "unsigned_artifact">>})>>

---------------------------------------------------------------------------
(* Checksum manifests. *)

\* a character of the class [a-fA-F0-9]
IsHexChar(c) == c \in Chars /\ \E i \in 1..Len(HexDigits) : At(HexDigits, i) = LowerOf[c]

\* the length of the longest prefix of s made of hex digits
HexRun(s) ==
    LET other == {i \in 1..Len(s) : ~IsHexChar(At(s, i))}
    IN  IF other = {} THEN Len(s) ELSE MinOf(other) - 1

\* the go.sum check reporting its duplicates at High severity
goSumSeverityHigh == "HIGH"

\* lines 376-379: the severity of a go.sum finding
goSumSeverity == "CRITICAL"

\* reChecksumLine.FindStringSubmatch(line): ^([a-fA-F0-9]{32,128})\s+(.+)$ .
\* The hex group is followed by white space, so it is the whole leading run of
\* hex digits; \s+ is greedy, so the second group starts at the first character
\* that is no white space.
reChecksumLine(line) ==
    LET n    == HexRun(line)
        rest == TrimLeft(Drop(line, n))
    IN  IF /\ n >= ReHashMin
           /\ n <= ReHashMax
           /\ Len(line) > n
           /\ IsSpace(At(line, n + 1))
           /\ Len(rest) > 0
        THEN <<line, Take(line, n), rest>>
        ELSE <<>>

\* the declared hash taken as written
declaredHashAsWritten(matches) == matches[2]

\* line 257: the declared hash is compared in lower case
declaredHashOf(matches) == ToLower(matches[2])

\* line 273: the comparison of the computed digest with the declared one
hashMismatch(actualHash, declaredHash) == actualHash # declaredHash

\* a check that verifies a declared hash of any length
isAnyLength(declaredHash) == TRUE

\* line 270: only a hash of the length of a SHA-256 digest is verified
isSha256Length(declaredHash) == Len(declaredHash) = Sha256HexLen

\* one iteration of the scanner loop of checkChecksumMismatches (lines 246-285)
checkChecksumLine(checksumFilePath, dir, text, lineNum) ==
    LET line    == TrimSpace(text)
        matches == reChecksumLine(line)
    IN  IF line = "" \/ HasPrefix(line, "#") THEN <<>>
        ELSE IF Len(matches) # 3 THEN <<>>
        ELSE LET declaredHash   == declaredHashOf(matches)
                 referencedFile == TrimPrefix(TrimSpace(matches[3]), "*")
                 targetPath     == Join(dir, referencedFile)
             IN  IF ~Readable(targetPath) THEN <<>>
                 ELSE IF ~isSha256Length(declaredHash) THEN <<>>
                 ELSE LET actualHash == Sha256Hex(fs[targetPath].bytes)
                      IN  IF hashMismatch(actualHash, declaredHash)
                          THEN <<Finding("ARTINT-003", "CRITICAL", "HIGH",
                                         "Checksum mismatch for " \o referencedFile
                                           \o ": declared=" \o Take(declaredHash, PreviewLen) \o "..."
                                           \o " actual=" \o Take(actualHash, PreviewLen) \o "...",
                                         checksumFilePath, lineNum,
                                         {<<"file", referencedFile>>,
                                          <<"type", "checksum_mismatch">>})>>
                          ELSE <<>>

RECURSIVE checkChecksumLines(_, _, _, _)
checkChecksumLines(checksumFilePath, dir, lines, lineNum) ==
    IF lines = <<>> THEN <<>>
    ELSE checkChecksumLine(checksumFilePath, dir, Head(lines), lineNum)
           \o checkChecksumLines(checksumFilePath, dir, Tail(lines), lineNum + 1)

\* checkChecksumMismatches, as the list of findings it adds
checkChecksumMismatches(checksumFilePath, dir) ==
    IF ~Readable(checksumFilePath) THEN <<>>
    ELSE checkChecksumLines(checksumFilePath, dir, ScanLines(fs[checksumFilePath].bytes), 1)

---------------------------------------------------------------------------
(* package-lock.json.  The bytes of a JSON file are not lexed: a node's    *)
(* json field is the document they spell,                                  *)
(*   [valid, packages |-> [t, members]]                                    *)
(* valid: the bytes are well-formed JSON with an object at the top;        *)
(* packages.t: the JSON type of the "packages" member ("absent" without    *)
(* one); members: key -> [version, resolved, integrity], each a JSON       *)
(* value [t, v] of type "absent", "null", "string" or "number".            *)

NoJson == [valid |-> FALSE, packages |-> [t |-> "absent", members |-> <<>>]]

\* what json.Unmarshal stores in a string field: the string, or nothing
\* (the zero value stays) for null, for an absent member and for a mismatch
JsonString(value) == IF value.t = "string" THEN value.v ELSE ""

\* a JSON value json.Unmarshal cannot store in a string field
JsonStringMismatch(value) == value.t \notin {"absent", "null", "string"}

\* a decoder that reports no error and keeps what it could store
UnmarshalLenient(doc) ==
    LET members == IF doc.valid /\ doc.packages.t = "object"
                   THEN doc.packages.members ELSE <<>>
    IN  [err |-> FALSE,
         Packages |-> [k \in DOMAIN members |->
                         [Version   |-> JsonString(members[k].version),
                          Resolved  |-> JsonString(members[k].resolved),
                          Integrity |-> JsonString(members[k].integrity)]]]

\* json.Unmarshal(data, &lockfile): [err, Packages]
Unmarshal(doc) ==
    LET members == IF doc.valid /\ doc.packages.t = "object"
                   THEN doc.packages.members ELSE <<>>
    IN  [err |-> \/ ~doc.valid
                 \/ doc.packages.t \notin {"absent", "null", "object"}
                 \/ \E k \in DOMAIN members :
                        \/ JsonStringMismatch(members[k].version)
                        \/ JsonStringMismatch(members[k].resolved)
                        \/ JsonStringMismatch(members[k].integrity),
         Packages |-> [k \in DOMAIN members |->
                         [Version   |-> JsonString(members[k].version),
                          Resolved  |-> JsonString(members[k].resolved),
                          Integrity |-> JsonString(members[k].integrity)]]]

\* the loop's test without its skip of the root package
npmEntryFlaggedWithRoot(pkgPath, pkg) == pkg.Integrity = "" /\ pkg.Resolved # ""

\* lines 324-327: the entries the loop reports
npmEntryFlagged(pkgPath, pkg) ==
    /\ pkgPath # ""
    /\ pkg.Integrity = "" /\ pkg.Resolved # ""

\* the loop leaving at its first finding
RECURSIVE checkNPMPackagesFirstOnly(_, _, _)
checkNPMPackagesFirstOnly(filePath, packages, order) ==
    IF order = <<>> THEN <<>>
    ELSE LET pkgPath == Head(order)
             pkg     == packages[pkgPath]
         IN  IF pkgPath # "" /\ pkg.Integrity = "" /\ pkg.Resolved # ""
             THEN <<Finding("ARTINT-003", "CRITICAL", "HIGH",
                            "Lockfile entry missing integrity hash: " \o pkgPath
                              \o "@" \o pkg.Version,
                            filePath, 0,
                            {<<"package", pkgPath>>, <<"version", pkg.Version>>,
                             <<"type", "missing_integrity">>})>>
             ELSE checkNPMPackagesFirstOnly(filePath, packages, Tail(order))

\* the loop of checkNPMLockfileIntegrity over the keys in the order the map
\* iteration yields them
RECURSIVE checkNPMPackages(_, _, _)
checkNPMPackages(filePath, packages, order) ==
    IF order = <<>> THEN <<>>
    ELSE LET pkgPath == Head(order)
             pkg     == packages[pkgPath]
         IN  (IF npmEntryFlagged(pkgPath, pkg)
              THEN <<Finding("ARTINT-003", "CRITICAL", "HIGH",
                             "Lockfile entry missing integrity hash: " \o pkgPath
                               \o "@" \o pkg.Version,
                             filePath, 0,
                             {<<"package", pkgPath>>, <<"version", pkg.Version>>,
                              <<"type", "missing_integrity">>})>>
              ELSE <<>>)
             \o checkNPMPackages(filePath, packages, Tail(order))

\* checkNPMLockfileIntegrity, as the list of findings it adds when the map
\* iteration visits the keys in the given order
checkNPMLockfileIntegrity(filePath, order) ==
    IF ~Readable(filePath) THEN <<>>
    ELSE LET lockfile == Unmarshal(fs[filePath].json)
         IN  IF lockfile.err THEN <<>>
             ELSE checkNPMPackages(filePath, lockfile.Packages, order)

\* the orders a Go map iteration may visit a set of keys in
MapOrders(keys) ==
    {o \in [1..Cardinality(keys) -> keys] : \A i, j \in DOMAIN o : i # j => o[i] # o[j]}

---------------------------------------------------------------------------
(* go.sum. *)

\* the length of the longest prefix of s without white space
NonSpaceRun(s) ==
    LET spaces == {i \in 1..Len(s) : IsSpace(At(s, i))}
    IN  IF spaces = {} THEN Len(s) ELSE MinOf(spaces) - 1

\* reGoSumLine.FindStringSubmatch(line): ^(\S+)\s+(\S+)\s+(h1:\S+)$ .  Each
\* group is a maximal run without white space, the third reaches the line's end.
reGoSumLine(line) ==
    LET n1 == NonSpaceRun(line)
        s2 == TrimLeft(Drop(line, n1))
        n2 == NonSpaceRun(s2)
        s3 == TrimLeft(Drop(s2, n2))
    IN  IF /\ n1 >= 1 /\ Len(line) > n1
           /\ n2 >= 1 /\ Len(s2) > n2
           /\ NonSpaceRun(s3) = Len(s3)
           /\ HasPrefix(s3, "h1:") /\ Len(s3) > 3
        THEN <<line, Take(line, n1), Take(s2, n2), s3>>
        ELSE <<>>

\* a key seen before, whatever its hash
goSumSeenBefore(seen, key, hash) == key \in DOMAIN seen

\* line 375: a key seen before, with another hash
goSumConflict(seen, key, hash) == key \in DOMAIN seen /\ seen[key] # hash

\* a map that keeps the first hash seen for a key
seenKeepFirst(seen, key, hash) ==
    [k \in DOMAIN seen \cup {key} |-> IF k \in DOMAIN seen THEN seen[k] ELSE hash]

\* line 388: seen[key] = hash
seenAfter(seen, key, hash) ==
    [k \in DOMAIN seen \cup {key} |-> IF k = key THEN hash ELSE seen[k]]

\* the scanner loop of checkGoSumIntegrity (lines 358-389)
RECURSIVE checkGoSumLines(_, _, _, _)
checkGoSumLines(filePath, lines, lineNum, seen) ==
    IF lines = <<>> THEN <<>>
    ELSE LET line    == TrimSpace(Head(lines))
             matches == reGoSumLine(line)
         IN  IF line = "" \/ Len(matches) # 4
             THEN checkGoSumLines(filePath, Tail(lines), lineNum + 1, seen)
             ELSE LET module == matches[2]
                      ver    == matches[3]
                      hash   == matches[4]
                      key    == module \o "@" \o ver
                  IN  (IF goSumConflict(seen, key, hash)
                       THEN <<Finding("ARTINT-003", goSumSeverity, "HIGH",
                                      "Duplicate go.sum entry with different hash for " \o key,
                                      filePath, lineNum,
                                      {<<"module", module>>, <<"version", ver>>,
                                       <<"type", "checksum_mismatch">>})>>
                       ELSE <<>>)
                      \o checkGoSumLines(filePath, Tail(lines), lineNum + 1,
                                         seenAfter(seen, key, hash))

\* checkGoSumIntegrity, as the list of findings it adds
checkGoSumIntegrity(filePath) ==
    IF ~Readable(filePath) THEN <<>>
    ELSE checkGoSumLines(filePath, ScanLines(fs[filePath].bytes), 1, <<>>)

\* checkLockfileIntegrity: dispatch on the base name
checkLockfileIntegrity(filePath, order) ==
    CASE Base(filePath) = "package-lock.json" -> checkNPMLockfileIntegrity(filePath, order)
      [] Base(filePath) = "go.sum"            -> checkGoSumIntegrity(filePath)
      [] OTHER                                -> <<>>

---------------------------------------------------------------------------
(* The body of the per-file loop of handleScan (lines 145-162). *)

analyzeFile(path, set, order) ==
    LET name == Base(path)
        dir  == Dir(path)
    IN  (IF isReleaseArtifact(name)
         THEN checkMissingChecksum(path, name, dir, set)
                \o checkUnsignedArtifact(path, name, dir, set)
         ELSE <<>>)
        \o (IF name \in checksumFileNames THEN checkChecksumMismatches(path, dir) ELSE <<>>)
        \o (IF name \in lockfileNames THEN checkLockfileIntegrity(path, order) ELSE <<>>)

\* the iteration orders of the maps ranged over while a file is analyzed that
\* can show in the findings: the packages of a package-lock.json
analyzeOrders(path) ==
    IF Base(path) = "package-lock.json" /\ Readable(path) /\ ~Unmarshal(fs[path].json).err
    THEN MapOrders(DOMAIN Unmarshal(fs[path].json).Packages)
    ELSE {<<>>}

---------------------------------------------------------------------------
(* handleScan. *)

\* lines 103-106: the input's workspace_root if it is a non-empty string, else
\* the request's WorkspaceRoot
workspaceRoot == IF req.input # "" THEN req.input ELSE req.WorkspaceRoot

\* what handleScan returns with resp.Build(), nil
ReturnResponse(fnd) == [returned |-> TRUE, resp |-> TRUE, err |-> "nil", findings |-> fnd]

\* the text of a context error
ErrorText(err) ==
    IF err = "Canceled" THEN "context canceled" ELSE "context deadline exceeded"

\* what handleScan returns with nil, fmt.Errorf("walking workspace: %w", err)
ReturnError(cause) ==
    [returned |-> TRUE, resp |-> FALSE, err |-> "walking workspace: " \o ErrorText(cause),
     findings |-> <<>>]

NotReturned == [returned |-> FALSE, resp |-> FALSE, err |-> "nil", findings |-> <<>>]

\* line 122: the walk callback's ctx.Err() != nil
walkCtxDone == ctxErr # "nil"

\* a per-file loop that never looks at the context
loopCtxIgnored == FALSE

\* line 141: the per-file loop's ctx.Err() != nil
loopCtxDone == ctxErr # "nil"

\* line 135: err != nil && err != context.Canceled
walkFailed(err) == err # "nil" /\ err # "Canceled"

\* lines 103-116: the root is chosen; without one the empty response is returned
Start ==
    /\ pc = "start"
    /\ IF workspaceRoot = ""
       THEN /\ pc' = "done"
            /\ ret' = ReturnResponse(<<>>)
            /\ todo' = <<>>
       ELSE /\ pc' = "walk"
            /\ ret' = ret
            /\ todo' = <<(<<workspaceRoot>>)>>
    /\ UNCHANGED <<fs, req, ctxErr, allFiles, fileSet, idx, findings, walkErr, broke,
                   scanNo, prev>>

\* lines 118-137: filepath.WalkDir visits the next entry and calls the callback
\* on it.  An entry that cannot be examined (the root's Lstat, a directory's
\* ReadDir) is reported to the callback with an error and the callback returns
\* nil; a context error returned by the callback ends the walk, and handleScan
\* goes on to the loop when it is context.Canceled and returns an error otherwise.
WalkVisit ==
    /\ pc = "walk"
    /\ todo # <<>>
    /\ LET path == Head(todo)
       IN  IF ~Exists(path)
           THEN /\ todo' = Tail(todo)
                /\ UNCHANGED <<allFiles, fileSet, walkErr, pc, ret>>
           ELSE IF walkCtxDone
           THEN /\ walkErr' = ctxErr
                /\ todo' = <<>>
                /\ IF walkFailed(ctxErr)
                   THEN pc' = "done" /\ ret' = ReturnError(ctxErr)
                   ELSE pc' = "analyze" /\ ret' = ret
                /\ UNCHANGED <<allFiles, fileSet>>
           ELSE IF fs[path].isDir
           THEN /\ todo' = IF Base(path) \in skippedDirs \/ ~fs[path].ok
                           THEN Tail(todo)
                           ELSE [i \in 1..Len(ReadDir(path)) |->
                                    Append(path, ReadDir(path)[i])] \o Tail(todo)
                /\ UNCHANGED <<allFiles, fileSet, walkErr, pc, ret>>
           ELSE /\ allFiles' = Append(allFiles, path)
                /\ fileSet' = fileSet \cup {path}
                /\ todo' = Tail(todo)
                /\ UNCHANGED <<walkErr, pc, ret>>
    /\ UNCHANGED <<fs, req, ctxErr, idx, findings, broke, scanNo, prev>>

\* lines 134-137: WalkDir has visited everything and returns nil
WalkFinish ==
    /\ pc = "walk"
    /\ todo = <<>>
    /\ pc' = "analyze"
    /\ UNCHANGED <<fs, req, ctxErr, todo, allFiles, fileSet, idx, findings, walkErr,
                   broke, ret, scanNo, prev>>

\* lines 140-163: one iteration of the per-file loop; the break leads to the
\* return of line 165
AnalyzeNext ==
    /\ pc = "analyze"
    /\ idx <= Len(allFiles)
    /\ IF loopCtxDone
       THEN /\ broke' = TRUE
            /\ pc' = "done"
            /\ ret' = ReturnResponse(findings)
            /\ UNCHANGED <<findings, idx>>
       ELSE /\ \E order \in analyzeOrders(allFiles[idx]) :
                 findings' = findings \o analyzeFile(allFiles[idx], fileSet, order)
            /\ idx' = idx + 1
            /\ UNCHANGED <<broke, pc, ret>>
    /\ UNCHANGED <<fs, req, ctxErr, todo, allFiles, fileSet, walkErr, scanNo, prev>>

\* line 165: the loop is over, the response is built and returned
ScanReturn ==
    /\ pc = "analyze"
    /\ idx > Len(allFiles)
    /\ pc' = "done"
    /\ ret' = ReturnResponse(findings)
    /\ UNCHANGED <<fs, req, ctxErr, todo, allFiles, fileSet, idx, findings, walkErr,
                   broke, scanNo, prev>>

\* the owner of the request's context cancels it, or its deadline passes
Cancel ==
    /\ pc # "done"
    /\ ctxErr = "nil"
    /\ ctxErr' \in {"Canceled", "DeadlineExceeded"}
    /\ UNCHANGED <<fs, req, pc, todo, allFiles, fileSet, idx, findings, walkErr, broke,
                   ret, scanNo, prev>>

\* the scan ran over the whole tree: the walk was not ended and the loop not left
Completed == pc = "done" /\ ret.resp /\ walkErr = "nil" /\ ~broke

\* the server invokes the handler again, with the same request and a fresh
\* context, over the unchanged tree; every invocation starts from fresh locals
NextScan ==
    /\ pc = "done"
    /\ scanNo < MaxScans
    /\ scanNo' = scanNo + 1
    /\ prev' = Append(prev, [ret |-> ret, completed |-> Completed])
    /\ pc' = "start"
    /\ ctxErr' = "nil"
    /\ todo' = <<>>
    /\ allFiles' = <<>>
    /\ fileSet' = {}
    /\ idx' = 1
    /\ findings' = <<>>
    /\ walkErr' = "nil"
    /\ broke' = FALSE
    /\ ret' = NotReturned
    /\ UNCHANGED <<fs, req>>

Next == Start \/ WalkVisit \/ WalkFinish \/ AnalyzeNext \/ ScanReturn \/ Cancel \/ NextScan

---------------------------------------------------------------------------
(* The file trees and requests a behaviour may start from. *)

FileNode(bytes) == [isDir |-> FALSE, ok |-> TRUE, bytes |-> bytes, json |-> NoJson]

UnreadableFile == [isDir |-> FALSE, ok |-> FALSE, bytes |-> "", json |-> NoJson]

JsonFile(doc) == [isDir |-> FALSE, ok |-> TRUE, bytes |-> "json", json |-> doc]

DirNode == [isDir |-> TRUE, ok |-> TRUE, bytes |-> "", json |-> NoJson]

UnreadableDir == [isDir |-> TRUE, ok |-> FALSE, bytes |-> "", json |-> NoJson]

\* the tree holding the given <<path, node>> entries and the directories above them
MkFs(entries) ==
    LET given == {e[1] : e \in entries}
        above == UNION {{SubSeq(q, 1, k) : k \in 1..Len(q)} : q \in given} \ given
    IN  [q \in given \cup above |->
           IF q \in given THEN (CHOOSE e \in entries : e[1] = q)[2] ELSE DirNode]

\* no path is given two nodes
Consistent(entries) == \A e1, e2 \in entries : e1[1] = e2[1] => e1 = e2

RootDir == <<(<<"ws">>), DirNode>>

\* the text of a file with the given lines
RECURSIVE TextOf(_)
TextOf(lines) == IF lines = <<>> THEN "" ELSE Head(lines) \o "\n" \o TextOf(Tail(lines))

\* the sequences of at most n elements of S
SeqsUpTo(S, n) == UNION {[1..k -> S] : k \in 0..n}

Content1 == "abc"

Content2 == "abd"

\* most optional files of a tree of release artifacts
MaxFiles == 4

ArtifactEntries ==
    { <<(<<"ws", "App.ZIP">>), FileNode(Content1)>>,
      <<(<<"ws", "App.ZIP.asc">>), FileNode("sig")>>,
      <<(<<"ws", "App.ZIP.sha256">>), FileNode("sum")>>,
      <<(<<"ws", "App.ZIP.sha256">>), DirNode>>,
      <<(<<"ws", "app.zip.sha256">>), FileNode("sum")>>,
      <<(<<"ws", "CHECKSUMS">>), FileNode("")>>,
      <<(<<"ws", "rel", "app.tar.gz">>), FileNode(Content2)>>,
      <<(<<"ws", "rel", "app.tar.gz.minisig">>), FileNode("sig")>>,
      <<(<<"ws", "rel", "checksums.txt">>), FileNode("# none\n")>>,
      <<(<<"ws", "vendor", "lib.jar">>), FileNode(Content1)>> }

ArtifactTrees ==
    {MkFs({RootDir} \cup S) :
        S \in {T \in SUBSET ArtifactEntries : Cardinality(T) <= MaxFiles /\ Consistent(T)}}

\* the lines of the checksum manifests
ManifestLineMenu ==
    { Sha256Hex(Content1) \o "  app.tgz",
      ToUpper(Sha256Hex(Content1)) \o " *app.tgz",
      Repeat("0", Sha256HexLen) \o "  app.tgz",
      Repeat("0", ReHashMin) \o "  app.tgz",
      Sha256Hex(Content1) \o "  missing.bin",
      "# " \o Repeat("0", Sha256HexLen) \o "  app.tgz",
      Repeat("0", Sha256HexLen) \o "app.tgz",
      " " \o Sha256Hex(Content2) \o "\t./app.tgz\r" }

ManifestTargets ==
    { {}, {<<(<<"ws", "app.tgz">>), FileNode(Content1)>>},
      {<<(<<"ws", "app.tgz">>), FileNode(Content2)>>},
      {<<(<<"ws", "app.tgz">>), UnreadableFile>>} }

ManifestTrees ==
    {MkFs({RootDir, <<(<<"ws", "SHA256SUMS">>), FileNode(TextOf(lines))>>} \cup target) :
        lines \in SeqsUpTo(ManifestLineMenu, MaxLines), target \in ManifestTargets}

StringValue(v) == [t |-> "string", v |-> v]

Absent == [t |-> "absent", v |-> ""]

\* the entries of the "packages" objects
NpmEntryMenu ==
    { [version |-> StringValue("1.0.0"), resolved |-> StringValue("https://r/a.tgz"),
       integrity |-> StringValue("sha512-x")],
      [version |-> StringValue("1.0.0"), resolved |-> StringValue("https://r/a.tgz"),
       integrity |-> StringValue("")],
      [version |-> StringValue("2.0.0"), resolved |-> StringValue("https://r/a.tgz"),
       integrity |-> Absent],
      [version |-> Absent, resolved |-> StringValue("https://r/a.tgz"),
       integrity |-> [t |-> "null", v |-> ""]],
      [version |-> StringValue("1.0.0"), resolved |-> StringValue(""),
       integrity |-> StringValue("")],
      [version |-> StringValue("1.0.0"), resolved |-> StringValue("https://r/a.tgz"),
       integrity |-> [t |-> "number", v |-> "7"]] }

NpmKeys == {"", "node_modules/a", "node_modules/b", "node_modules/c"}

NpmDocs ==
    {NoJson, [valid |-> TRUE, packages |-> [t |-> "absent", members |-> <<>>]],
     [valid |-> TRUE, packages |-> [t |-> "array", members |-> <<>>]]}
    \cup {[valid |-> TRUE, packages |-> [t |-> "object", members |-> m]] :
            m \in UNION {[K -> NpmEntryMenu] :
                           K \in {L \in SUBSET NpmKeys : Cardinality(L) <= MaxPkgs}}}

NpmTrees ==
    {MkFs({RootDir, <<(<<"ws", "package-lock.json">>), JsonFile(doc)>>}) : doc \in NpmDocs}

\* the lines of the go.sum files
GoSumLineMenu ==
    { "a.io/x v1.0.0 h1:AAA=",
      "a.io/x v1.0.0 h1:BBB=",
      " a.io/x  v1.0.0\th1:AAA=\r",
      "a.io/x v1.0.0/go.mod h1:BBB=",
      "b.io/y v1.0.0 h1:BBB=",
      "a.io/x v1.0.0 h2:BBB=",
      "" }

\* longest go.sum, in lines
MaxSumLines == 3

GoSumTrees ==
    {MkFs({RootDir, <<(<<"ws", "go.sum">>), FileNode(TextOf(lines))>>}) :
        lines \in SeqsUpTo(GoSumLineMenu, MaxSumLines)}

\* trees with every kind of file, and trees that cannot be walked
MixedEntries ==
    { <<(<<"ws", "app.tgz">>), FileNode(Content2)>>,
      <<(<<"ws", "SHA256SUMS">>), FileNode(Sha256Hex(Content1) \o "  app.tgz\n")>>,
      <<(<<"ws", "go.sum">>),
        FileNode("a.io/x v1.0.0 h1:AAA=\na.io/x v1.0.0 h1:BBB=\n")>>,
      <<(<<"ws", "go.sum">>), UnreadableFile>>,
      <<(<<"ws", "package-lock.json">>),
        JsonFile([valid |-> TRUE,
                  packages |-> [t |-> "object",
                                members |-> [k \in {"node_modules/a", "node_modules/b"} |->
                                    [version |-> StringValue("1.0.0"),
                                     resolved |-> StringValue("https://r/a.tgz"),
                                     integrity |-> Absent]]]])>>,
      <<(<<"ws", "package-lock.json">>), JsonFile(NoJson)>>,
      <<(<<"ws", "rel">>), UnreadableDir>>,
      <<(<<"ws", "rel", "app.zip">>), FileNode(Content1)>>,
      <<(<<"ws", "node_modules", "x", "package-lock.json">>), JsonFile(NoJson)>> }

MixedTrees ==
    {MkFs({RootDir} \cup S) : S \in {T \in SUBSET MixedEntries : Consistent(T)}}

\* a release directory whose manifest has a line of every kind: a wrong
\* 64-digit hash, hashes of 32, 65 and 128 digits, a file that is missing, a file that cannot
\* be read, a directory, a name that begins with '*' behind the BSD marker, and
\* a hash followed by junk
ReleaseManifest ==
    TextOf(<< Repeat("0", Sha256HexLen) \o "  app.tgz",
              Repeat("0", ReHashMin) \o "  app.tgz",
              Repeat("0", Sha256HexLen + 1) \o "  app.tgz",
              Repeat("0", ReHashMax) \o "  app.tgz",
              Sha256Hex(Content1) \o "  missing.bin",
              Repeat("0", Sha256HexLen) \o "  locked.bin",
              Repeat("0", Sha256HexLen) \o "  sub",
              Sha256Hex(Content1) \o " **app.tgz",
              Repeat("0", Sha256HexLen) \o "x  app.tgz",
              Sha256Hex(Content1) \o "  app.tgz" >>)

ReleaseTrees ==
    { MkFs({RootDir,
            <<(<<"ws", "release", "SHA256SUMS">>), FileNode(ReleaseManifest)>>,
            <<(<<"ws", "release", "app.tgz">>), FileNode(Content1)>>,
            <<(<<"ws", "release", "*app.tgz">>), FileNode(Content2)>>,
            <<(<<"ws", "release", "locked.bin">>), UnreadableFile>>,
            <<(<<"ws", "release", "sub">>), DirNode>>}) }

\* two modules whose go.sum repeats one key three times: with the hashes
\* A, B, A and with the hashes A, B, B
GoSumPairTrees ==
    { MkFs({RootDir,
            <<(<<"ws", "aba", "go.sum">>),
              FileNode(TextOf(<< "a.io/x v1.0.0 h1:AAA=", "a.io/x v1.0.0 h1:BBB=",
                                 "b.io/y v1.0.0 h1:BBB=", "a.io/x v1.0.0 h1:AAA=" >>))>>,
            <<(<<"ws", "abb", "go.sum">>),
              FileNode(TextOf(<< "a.io/x v1.0.0 h1:AAA=", "a.io/x v1.0.0 h1:BBB=",
                                 "a.io/x v1.0.0 h1:BBB=" >>))>>}) }

\* a lockfile with two dependencies that lack an integrity hash
BareLockfile ==
    JsonFile([valid |-> TRUE,
              packages |-> [t |-> "object",
                            members |-> [k \in {"node_modules/a", "node_modules/b"} |->
                                [version |-> StringValue("1.0.0"),
                                 resolved |-> StringValue("https://r/a.tgz"),
                                 integrity |-> Absent]]]])

\* a workspace with a reportable file under every skipped directory, at the
\* top and nested, a directory that cannot be read, and files beside and
\* after them, one of them a regular file with the name of a skipped directory
SkipTrees ==
    { MkFs({RootDir,
            <<(<<"ws", ".git", "app.zip">>), FileNode(Content1)>>,
            <<(<<"ws", ".venv", "lib", "app.zip">>), FileNode(Content1)>>,
            <<(<<"ws", "__pycache__", "go.sum">>),
              FileNode("a.io/x v1.0.0 h1:AAA=\na.io/x v1.0.0 h1:BBB=\n")>>,
            <<(<<"ws", "locked">>), UnreadableDir>>,
            <<(<<"ws", "locked", "app.zip">>), FileNode(Content1)>>,
            <<(<<"ws", "node_modules", "x", "package-lock.json">>), BareLockfile>>,
            <<(<<"ws", "src", "vendor", "SHA256SUMS">>),
              FileNode(Repeat("0", Sha256HexLen) \o "  tool.zip\n")>>,
            <<(<<"ws", "src", "vendor", "tool.zip">>), FileNode(Content1)>>,
            <<(<<"ws", "src", "app.zip">>), FileNode(Content1)>>,
            <<(<<"ws", "src", "secret.zip">>), UnreadableFile>>,
            <<(<<"ws", "z", "vendor">>), FileNode(Content2)>>,
            <<(<<"ws", "z", "app.zip">>), FileNode(Content1)>>}) }

\* a workspace root that itself has the name of a skipped directory
SkippedRootTrees == { MkFs({<<(<<"vendor", "app.zip">>), FileNode(Content1)>>}) }

SkippedRootRequest == [input |-> "vendor", WorkspaceRoot |-> ""]

\* a lockfile json.Unmarshal rejects for one entry's integrity, a number,
\* beside an entry that lacks an integrity hash
MistypedLockfile ==
    JsonFile([valid |-> TRUE,
              packages |-> [t |-> "object",
                            members |-> [k \in {"node_modules/a", "node_modules/b"} |->
                                [version |-> StringValue("1.0.0"),
                                 resolved |-> StringValue("https://r/a.tgz"),
                                 integrity |-> IF k = "node_modules/a"
                                               THEN [t |-> "number", v |-> "7"]
                                               ELSE Absent]]]])

\* a workspace with every failure beside files that have findings: manifest
\* and go.sum lines that do not match between lines that do, lockfiles that
\* are no JSON or are mistyped, a manifest and a go.sum that cannot be opened
FaultyTrees ==
    { MkFs({RootDir,
            <<(<<"ws", "SHA256SUMS">>),
              FileNode(TextOf(<< "not a checksum line",
                                 Repeat("0", Sha256HexLen) \o "  app.tgz",
                                 "# " \o Repeat("0", Sha256HexLen) \o "  app.tgz",
                                 "abc123  app.tgz" >>))>>,
            <<(<<"ws", "app.tgz">>), FileNode(Content1)>>,
            <<(<<"ws", "go.sum">>),
              FileNode(TextOf(<< "a.io/x v1.0.0 h1:AAA=", "a.io/x v1.0.0",
                                 "a.io/x v1.0.0 sha256:BBB=", "a.io/x v1.0.0 h1:BBB=" >>))>>,
            <<(<<"ws", "package-lock.json">>), JsonFile(NoJson)>>,
            <<(<<"ws", "a", "package-lock.json">>), BareLockfile>>,
            <<(<<"ws", "b", "app.zip">>), FileNode(Content1)>>,
            <<(<<"ws", "b", "checksums.txt">>), UnreadableFile>>,
            <<(<<"ws", "b", "go.sum">>), UnreadableFile>>,
            <<(<<"ws", "b", "package-lock.json">>), UnreadableFile>>,
            <<(<<"ws", "c", "package-lock.json">>), MistypedLockfile>>}) }

\* a request names the root in its input, in its WorkspaceRoot, or not at all
Requests == [input : {"", "ws", "gone"}, WorkspaceRoot : {"", "ws"}]

DirectRequest == [input |-> "ws", WorkspaceRoot |-> ""]

RootTrees ==
    { MkFs({RootDir}), MkFs({<<(<<"ws">>), UnreadableDir>>}),
      MkFs({RootDir, <<(<<"ws", "rel", "empty">>), DirNode>>}),
      MkFs({RootDir, <<(<<"ws", "app.zip">>), FileNode(Content1)>>}) }

Worlds ==
    ((ArtifactTrees \cup ManifestTrees \cup NpmTrees \cup GoSumTrees \cup MixedTrees
        \cup ReleaseTrees \cup GoSumPairTrees) \X {DirectRequest})
    \cup (RootTrees \X Requests)
    \cup ((SkipTrees \cup FaultyTrees) \X {DirectRequest})
    \cup (SkippedRootTrees \X {SkippedRootRequest})

Init ==
    /\ \E w \in Worlds : fs = w[1] /\ req = w[2]
    /\ ctxErr = "nil"
    /\ pc = "start"
    /\ todo = <<>>
    /\ allFiles = <<>>
    /\ fileSet = {}
    /\ idx = 1
    /\ findings = <<>>
    /\ walkErr = "nil"
    /\ broke = FALSE
    /\ ret = NotReturned
    /\ scanNo = 1
    /\ prev = <<>>

Spec == Init /\ [][Next]_vars

---------------------------------------------------------------------------
(* Properties. *)

\* the number of positions of a list of findings that satisfy a predicate
CountOf(fnd, P(_)) == Cardinality({i \in DOMAIN fnd : P(fnd[i])})

\* the file has been through the per-file loop of the invocation in progress
Analyzed(path) == \E i \in 1..(idx - 1) : allFiles[i] = path

\* the name is that of a release artifact: lower-cased, it ends with an extension
\* of the table
ArtifactName(name) == \E ext \in releaseArtifactExtensions : HasSuffix(ToLower(name), ext)

\* the directory of the tree holds a regular file of that name
DirHasFile(dir, name) == IsFile(Append(dir, name))

\* the artifact's directory holds a checksum companion or a bulk manifest
ChecksumCovered(path) ==
    \/ \E ext \in checksumExtensions : DirHasFile(Dir(path), Base(path) \o ext)
    \/ \E csName \in checksumFileNames : DirHasFile(Dir(path), csName)

\* the artifact's directory holds a signature companion
Signed(path) == \E ext \in signatureExtensions : DirHasFile(Dir(path), Base(path) \o ext)

RuleCount(fnd, rule, path) == CountOf(fnd, LAMBDA f : f.rule = rule /\ f.file = path)

\* C1: in a scan that ran to completion, every indexed release artifact has
\* exactly one ARTINT-001 finding, of severity High, when its directory holds
\* neither a checksum companion <name><ext> nor a bulk manifest, and none when
\* it holds one.
C1_MissingChecksum ==
    Completed =>
        \A i \in DOMAIN allFiles :
            LET path == allFiles[i]
            IN  ArtifactName(Base(path)) =>
                  /\ RuleCount(ret.findings, "ARTINT-001", path)
                        = IF ChecksumCovered(path) THEN 0 ELSE 1
                  /\ \A j \in DOMAIN ret.findings :
                        (ret.findings[j].rule = "ARTINT-001" /\ ret.findings[j].file = path)
                            => ret.findings[j].severity = "HIGH"

\* a completed scan with an uncovered artifact (one finding) and an artifact
\* covered only by a bulk manifest (none)
C1_Witness ==
    /\ Completed
    /\ \E i, j \in DOMAIN allFiles :
          /\ ArtifactName(Base(allFiles[i])) /\ ~ChecksumCovered(allFiles[i])
          /\ RuleCount(ret.findings, "ARTINT-001", allFiles[i]) = 1
          /\ ArtifactName(Base(allFiles[j]))
          /\ \E csName \in checksumFileNames : DirHasFile(Dir(allFiles[j]), csName)
          /\ ~\E ext \in checksumExtensions :
                 DirHasFile(Dir(allFiles[j]), Base(allFiles[j]) \o ext)
          /\ RuleCount(ret.findings, "ARTINT-001", allFiles[j]) = 0

\* C2: in a scan that ran to completion, every indexed release artifact has
\* exactly one ARTINT-002 finding, of severity Medium, when its directory holds
\* no signature companion <name><ext>, and none when it holds one, whatever
\* checksum companion or bulk manifest there is.
C2_UnsignedArtifact ==
    Completed =>
        \A i \in DOMAIN allFiles :
            LET path == allFiles[i]
            IN  ArtifactName(Base(path)) =>
                  /\ RuleCount(ret.findings, "ARTINT-002", path) = IF Signed(path) THEN 0 ELSE 1
                  /\ \A j \in DOMAIN ret.findings :
                        (ret.findings[j].rule = "ARTINT-002" /\ ret.findings[j].file = path)
                            => ret.findings[j].severity = "MEDIUM"

\* a completed scan with an unsigned artifact that has a checksum (one
\* finding) and a signed artifact that has none (no finding)
C2_Witness ==
    /\ Completed
    /\ \E i, j \in DOMAIN allFiles :
          /\ ArtifactName(Base(allFiles[i])) /\ ~Signed(allFiles[i])
          /\ ChecksumCovered(allFiles[i])
          /\ RuleCount(ret.findings, "ARTINT-002", allFiles[i]) = 1
          /\ ArtifactName(Base(allFiles[j])) /\ Signed(allFiles[j])
          /\ ~ChecksumCovered(allFiles[j])
          /\ RuleCount(ret.findings, "ARTINT-002", allFiles[j]) = 0

\* the ways a manifest line is written that declares hash h for the file `name`
\* of the manifest's directory
ManifestEntryLines(h, name) ==
    {pre \o h \o sep \o mark \o name \o post :
        pre \in {"", " "}, sep \in {" ", "  ", "\t"}, mark \in {"", "*", "./"},
        post \in {"", "\r"}}

DeclaredHashes ==
    {Sha256Hex(Content1), Sha256Hex(Content2), ToUpper(Sha256Hex(Content1)),
     ToUpper(Sha256Hex(Content2)), Repeat("0", Sha256HexLen)}

TargetNames == {"app.tgz"}

LineCount(path, k) ==
    CountOf(findings, LAMBDA f : f.rule = "ARTINT-003" /\ f.file = path /\ f.startLine = k)

\* C3: for a manifest that has been checked, a line declaring a 64-digit hash
\* for a readable file of the manifest's directory has no ARTINT-003 finding
\* when the hash, compared without regard to case, is the SHA-256 digest of
\* the file's bytes, and exactly one when the digest is another.
C3_ChecksumRoundTrip ==
    \A path \in DOMAIN fs :
        (Analyzed(path) /\ Base(path) \in checksumFileNames /\ Readable(path)) =>
            LET lines == ScanLines(fs[path].bytes)
            IN  \A k \in DOMAIN lines : \A h \in DeclaredHashes : \A name \in TargetNames :
                    (/\ lines[k] \in ManifestEntryLines(h, name)
                     /\ Len(h) = Sha256HexLen
                     /\ Readable(Append(Dir(path), name)))
                    => LineCount(path, k)
                         = IF ToLower(h) = Sha256Hex(fs[Append(Dir(path), name)].bytes)
                           THEN 0 ELSE 1

\* a checked manifest of a file whose content has changed since one of its
\* lines was written: the line with the digest of the present bytes has no
\* finding, the line with the digest of the earlier bytes has one
C3_Witness ==
    \E path \in DOMAIN fs :
        /\ Analyzed(path) /\ Base(path) \in checksumFileNames /\ Readable(path)
        /\ Readable(Append(Dir(path), "app.tgz"))
        /\ fs[Append(Dir(path), "app.tgz")].bytes = Content2
        /\ LET lines == ScanLines(fs[path].bytes)
           IN  \E k, l \in DOMAIN lines :
                  /\ lines[k] \in ManifestEntryLines(Sha256Hex(Content2), "app.tgz")
                  /\ LineCount(path, k) = 0
                  /\ lines[l] \in ManifestEntryLines(Sha256Hex(Content1), "app.tgz")
                  /\ LineCount(path, l) = 1

\* json.Unmarshal accepts the document
Parseable(doc) ==
    /\ doc.valid
    /\ doc.packages.t \in {"absent", "null", "object"}
    /\ doc.packages.t = "object" =>
          \A k \in DOMAIN doc.packages.members :
              \A v \in {doc.packages.members[k].version, doc.packages.members[k].resolved,
                        doc.packages.members[k].integrity} :
                  v.t \in {"absent", "null", "string"}

PackageFindings(path, key) ==
    {i \in DOMAIN findings :
        /\ findings[i].rule = "ARTINT-003" /\ findings[i].file = path
        /\ <<"package", key>> \in findings[i].metadata}

\* C4: for a parseable package-lock.json that has been checked, every entry
\* with a non-empty resolved URL and an empty integrity string, the root entry
\* excepted, has exactly one ARTINT-003 finding, of type missing_integrity and
\* with the entry's path and version; an entry with a non-empty integrity
\* string has none, and the root entry (key "") has none.
C4_NpmMissingIntegrity ==
    \A path \in DOMAIN fs :
        (/\ Analyzed(path) /\ Base(path) = "package-lock.json" /\ Readable(path)
         /\ Parseable(fs[path].json) /\ fs[path].json.packages.t = "object") =>
            \A key \in DOMAIN fs[path].json.packages.members :
                LET entry == fs[path].json.packages.members[key]
                IN  /\ (key # "" /\ JsonString(entry.resolved) # ""
                           /\ JsonString(entry.integrity) = "")
                        => /\ Cardinality(PackageFindings(path, key)) = 1
                           /\ \A i \in PackageFindings(path, key) :
                                 /\ <<"type", "missing_integrity">> \in findings[i].metadata
                                 /\ <<"version", JsonString(entry.version)>>
                                        \in findings[i].metadata
                    /\ (key = "" \/ JsonString(entry.integrity) # "")
                        => PackageFindings(path, key) = {}

\* a checked lockfile whose root entry lacks an integrity hash (no finding)
\* beside a dependency that lacks one (one finding)
C4_Witness ==
    \E path \in DOMAIN fs :
        /\ Analyzed(path) /\ Base(path) = "package-lock.json" /\ Readable(path)
        /\ Parseable(fs[path].json) /\ fs[path].json.packages.t = "object"
        /\ \E key \in DOMAIN fs[path].json.packages.members :
              /\ key # ""
              /\ JsonString(fs[path].json.packages.members[key].resolved) # ""
              /\ JsonString(fs[path].json.packages.members[key].integrity) = ""
              /\ Cardinality(PackageFindings(path, key)) = 1
        /\ "" \in DOMAIN fs[path].json.packages.members
        /\ JsonString(fs[path].json.packages.members[""].resolved) # ""
        /\ JsonString(fs[path].json.packages.members[""].integrity) = ""
        /\ PackageFindings(path, "") = {}

\* the white-space separated fields of a line (strings.Fields)
Fields(s) ==
    LET starts == {i \in InkOf(s) : i = 1 \/ IsSpace(At(s, i - 1))}
        ends   == {i \in InkOf(s) : i = Len(s) \/ IsSpace(At(s, i + 1))}
        nth(S, k) == CHOOSE i \in S : Cardinality({j \in S : j < i}) = k - 1
    IN  [k \in 1..Cardinality(starts) |-> SubSeq(s, nth(starts, k), nth(ends, k))]

\* the line is a go.sum entry: module, version and an h1: hash
IsSumEntry(text) ==
    /\ Len(Fields(text)) = 3
    /\ HasPrefix(Fields(text)[3], "h1:") /\ Len(Fields(text)[3]) > 3

SumKey(text) == <<Fields(text)[1], Fields(text)[2]>>

SumHash(text) == Fields(text)[3]

\* the lines of the go.sum that are entries of the key of line k, in file order
Occurrences(lines, k) ==
    {l \in DOMAIN lines : IsSumEntry(lines[l]) /\ SumKey(lines[l]) = SumKey(lines[k])}

\* C5: in a go.sum that has been checked, the first line of a (module,
\* version) key has no finding, and the second line of the key has none when
\* its hash is that of the first and exactly one ARTINT-003 finding, at its
\* own line number and naming the module and the version, when it is another.
C5_GoSumSecondOccurrence ==
    \A path \in DOMAIN fs :
        (Analyzed(path) /\ Base(path) = "go.sum" /\ Readable(path)) =>
            LET lines == ScanLines(fs[path].bytes)
            IN  \A k \in DOMAIN lines :
                    IsSumEntry(lines[k]) =>
                        LET before == {l \in Occurrences(lines, k) : l < k}
                        IN  /\ before = {} => LineCount(path, k) = 0
                            /\ Cardinality(before) = 1 =>
                                  LET first == CHOOSE l \in before : TRUE
                                  IN  /\ LineCount(path, k)
                                         = IF SumHash(lines[k]) = SumHash(lines[first])
                                           THEN 0 ELSE 1
                                      /\ \A i \in DOMAIN findings :
                                            (findings[i].file = path /\ findings[i].startLine = k)
                                            => /\ <<"module", SumKey(lines[k])[1]>>
                                                     \in findings[i].metadata
                                               /\ <<"version", SumKey(lines[k])[2]>>
                                                     \in findings[i].metadata

\* a checked go.sum whose third line repeats the key of an earlier line with
\* another hash: one finding, at line 3, none at the earlier line
C5_Witness ==
    \E path \in DOMAIN fs :
        /\ Analyzed(path) /\ Base(path) = "go.sum" /\ Readable(path)
        /\ LET lines == ScanLines(fs[path].bytes)
           IN  /\ Len(lines) = 3
               /\ IsSumEntry(lines[3])
               /\ \E l \in 1..2 :
                     /\ Occurrences(lines, 3) = {l, 3}
                     /\ SumHash(lines[l]) # SumHash(lines[3])
                     /\ LineCount(path, l) = 0
               /\ LineCount(path, 3) = 1

\* the two lists hold the same findings the same number of times
SameFindings(a, b) ==
    /\ Len(a) = Len(b)
    /\ \A i \in DOMAIN a :
          CountOf(a, LAMBDA f : f = a[i]) = CountOf(b, LAMBDA f : f = a[i])

\* every finding of a is in b, at least as many times
SubFindings(a, b) ==
    \A i \in DOMAIN a : CountOf(a, LAMBDA f : f = a[i]) <= CountOf(b, LAMBDA f : f = a[i])

\* the invocation has seen the context's error, in the walk or in the loop
CancelObserved == walkErr # "nil" \/ broke

\* C6: whenever handleScan has seen the context's error, before the walk,
\* during it or in the per-file loop, it returns a response and a nil error,
\* and the findings it returns are among those of an uncancelled scan of the
\* tree.
C6_CancelNeverError ==
    (ret.returned /\ CancelObserved) =>
        /\ ret.resp
        /\ ret.err = "nil"
        /\ \A j \in DOMAIN prev :
              prev[j].completed => SubFindings(ret.findings, prev[j].ret.findings)

\* the tree below the root holds no file
EmptyTree(root) == \A q \in DOMAIN fs : (Len(q) >= 1 /\ q[1] = root) => fs[q].isDir

\* C7: a scan without a workspace root, of a root that cannot be accessed or
\* of an empty directory tree returns no finding and a nil error.
C7_UnusableRootEmptyResult ==
    (ret.returned /\ (workspaceRoot = "" \/ ~Exists(<<workspaceRoot>>)
                        \/ EmptyTree(workspaceRoot))) =>
        /\ ret.resp
        /\ ret.err = "nil"
        /\ ret.findings = <<>>

\* C8: two scans of the unchanged tree that both ran to completion return the
\* same findings, order left aside.
C8_ScansAgree ==
    Completed =>
        \A j \in DOMAIN prev :
            prev[j].completed => SameFindings(prev[j].ret.findings, ret.findings)

\* a second completed scan that returns the findings of the first in another order
C8_Witness ==
    /\ Completed
    /\ scanNo = 2
    /\ prev[1].completed
    /\ Len(ret.findings) >= 2
    /\ ret.findings # prev[1].ret.findings
    /\ SameFindings(prev[1].ret.findings, ret.findings)

TypesOf(f) == {kv[2] : kv \in {x \in f.metadata : x[1] = "type"}}

\* the finding is a row of the table of rules
InRuleTable(f) ==
    \/ /\ f.rule = "ARTINT-001" /\ f.severity = "HIGH" /\ f.confidence = "HIGH"
       /\ TypesOf(f) = {"missing_checksum"}
    \/ /\ f.rule = "ARTINT-002" /\ f.severity = "MEDIUM" /\ f.confidence = "MEDIUM"
       /\ TypesOf(f) = {"unsigned_artifact"}
    \/ /\ f.rule = "ARTINT-003" /\ f.severity = "CRITICAL" /\ f.confidence = "HIGH"
       /\ \/ TypesOf(f) = {"checksum_mismatch"}
          \/ TypesOf(f) = {"missing_integrity"}

\* C9: every finding a scan emits or returns is a row of the table: ARTINT-001
\* High/High missing_checksum, ARTINT-002 Medium/Medium unsigned_artifact,
\* ARTINT-003 Critical/High checksum_mismatch or missing_integrity.
C9_RuleTable ==
    /\ \A i \in DOMAIN findings : InRuleTable(findings[i])
    /\ \A i \in DOMAIN ret.findings : InRuleTable(ret.findings[i])

\* a response with a finding of every rule and of every type
C9_Witness ==
    /\ ret.returned
    /\ \A r \in {"ARTINT-001", "ARTINT-002", "ARTINT-003"} :
          \E i \in DOMAIN ret.findings : ret.findings[i].rule = r
    /\ \E i \in DOMAIN ret.findings : TypesOf(ret.findings[i]) = {"missing_integrity"}
    /\ \E i, j \in DOMAIN ret.findings :
          /\ TypesOf(ret.findings[i]) = {"checksum_mismatch"}
          /\ TypesOf(ret.findings[j]) = {"checksum_mismatch"}
          /\ Base(ret.findings[i].file) = "go.sum"
          /\ Base(ret.findings[j].file) \in checksumFileNames

\* C10 as stated: when the context's error ends the walk, the per-file checks
\* run over the files indexed until then and the scan returns their findings.
C10_CollectedFilesAreUsed ==
    (pc = "done" /\ walkErr = "Canceled") =>
        /\ ret.resp
        /\ \A i \in DOMAIN allFiles : \E order \in analyzeOrders(allFiles[i]) :
              SubFindings(analyzeFile(allFiles[i], fileSet, order), ret.findings)

\* C10 as amended: when the context's error ends the walk, the per-file loop
\* sees the same error before its first iteration: no indexed file is
\* classified or checked and the scan ends without a finding.
C10_EndedWalkNoFindings ==
    walkErr # "nil" =>
        /\ idx = 1
        /\ findings = <<>>
        /\ ret.returned => ret.findings = <<>>

\* a scan whose walk was ended by a cancellation after it had indexed an
\* artifact the loop would have reported: it returns a response without findings
C10_Witness ==
    /\ pc = "done"
    /\ walkErr = "Canceled"
    /\ ret.resp /\ ret.err = "nil" /\ ret.findings = <<>>
    /\ broke
    /\ \E i \in DOMAIN allFiles :
          /\ ArtifactName(Base(allFiles[i]))
          /\ analyzeFile(allFiles[i], fileSet, <<>>) # <<>>

\* a manifest line read as a hash, white space and a file name: the first
\* white-space separated field, what follows it, and the file referred to,
\* which is the name with one leading '*' removed
ManifestEntry(text) ==
    LET t == TrimSpace(text)
        h == Take(t, NonSpaceRun(t))
        n == TrimSpace(Drop(t, Len(h)))
    IN  [hash |-> h, name |-> n,
         ref  |-> IF HasPrefix(n, "*") THEN Drop(n, 1) ELSE n]

\* the entry has a hash of 32 to 128 hex digits and a file name
HashThenName(e) ==
    /\ Len(e.hash) >= ReHashMin /\ Len(e.hash) <= ReHashMax
    /\ \A i \in 1..Len(e.hash) : IsHexChar(At(e.hash, i))
    /\ e.name # ""

\* the file an entry of the manifest refers to, in the manifest's directory
ReferencedPath(path, e) == Join(Dir(path), e.ref)

\* C11: a checked manifest has a finding at a line only if the line has the
\* form hash-then-name, its hash has exactly 64 hex digits, the file it refers
\* to (one leading '*' removed, relative to the manifest's directory) is
\* readable and the file's SHA-256 digest is not the declared hash; a line
\* with a hash of another length, or whose file is missing or unreadable, has
\* no finding.
C11_MismatchOnlyIfVerified ==
    \A path \in DOMAIN fs :
        (Analyzed(path) /\ Base(path) \in checksumFileNames /\ Readable(path)) =>
            LET lines == ScanLines(fs[path].bytes)
            IN  /\ \A i \in DOMAIN findings :
                      findings[i].file = path => findings[i].startLine \in DOMAIN lines
                /\ \A k \in DOMAIN lines :
                      LET e      == ManifestEntry(lines[k])
                          target == ReferencedPath(path, e)
                      IN  IF LineCount(path, k) > 0
                          THEN /\ HashThenName(e)
                               /\ Len(e.hash) = Sha256HexLen
                               /\ Readable(target)
                               /\ Sha256Hex(fs[target].bytes) # ToLower(e.hash)
                               /\ \A i \in DOMAIN findings :
                                     (findings[i].file = path /\ findings[i].startLine = k)
                                     => <<"file", e.ref>> \in findings[i].metadata
                          ELSE TRUE

\* a checked manifest with a finding at its wrong 64-digit line and at its
\* line for the file "*app.tgz", and none at its 32-digit line nor at the
\* lines of a missing file, an unreadable file and a directory
C11_Witness ==
    \E path \in DOMAIN fs :
        /\ Analyzed(path) /\ Base(path) \in checksumFileNames /\ Readable(path)
        /\ LET lines   == ScanLines(fs[path].bytes)
               entries == [k \in DOMAIN lines |-> ManifestEntry(lines[k])]
           IN  /\ \E k \in DOMAIN lines :
                     /\ Len(entries[k].hash) = Sha256HexLen
                     /\ entries[k].ref = "app.tgz"
                     /\ LineCount(path, k) = 1
               /\ \E k \in DOMAIN lines :
                     /\ entries[k].ref = "*app.tgz"
                     /\ LineCount(path, k) = 1
               /\ \E k \in DOMAIN lines :
                     /\ HashThenName(entries[k])
                     /\ Len(entries[k].hash) = ReHashMin
                     /\ Readable(ReferencedPath(path, entries[k]))
                     /\ LineCount(path, k) = 0
               /\ \E k \in DOMAIN lines :
                     /\ HashThenName(entries[k])
                     /\ ~Exists(ReferencedPath(path, entries[k]))
                     /\ LineCount(path, k) = 0
               /\ \E k \in DOMAIN lines :
                     /\ HashThenName(entries[k])
                     /\ IsFile(ReferencedPath(path, entries[k]))
                     /\ ~Readable(ReferencedPath(path, entries[k]))
                     /\ LineCount(path, k) = 0

\* the entry lines of the go.sum, in file order, that have the key of line k
\* and come before it
EarlierOccurrences(lines, k) == {l \in Occurrences(lines, k) : l < k}

\* C12: in a go.sum that has been checked, an entry line is compared with the
\* latest earlier line of its (module, version) key, not with the first: the
\* first occurrence has no finding, and occurrence i >= 2 has exactly one
\* finding when its hash is not that of occurrence i-1 and none when it is.
C12_GoSumComparesWithLatest ==
    \A path \in DOMAIN fs :
        (Analyzed(path) /\ Base(path) = "go.sum" /\ Readable(path)) =>
            LET lines == ScanLines(fs[path].bytes)
            IN  \A k \in DOMAIN lines :
                    IF IsSumEntry(lines[k])
                    THEN LET before == EarlierOccurrences(lines, k)
                         IN  LineCount(path, k)
                               = IF before = {} THEN 0
                                 ELSE IF SumHash(lines[MaxOf(before)]) = SumHash(lines[k])
                                 THEN 0 ELSE 1
                    ELSE LineCount(path, k) = 0

\* the findings of a checked go.sum are at exactly these lines
FindingLines(path) ==
    {findings[i].startLine : i \in {j \in DOMAIN findings : findings[j].file = path}}

\* the hashes of the occurrences of the key of line k, in file order
HashSequence(lines, k) ==
    LET occ == Occurrences(lines, k)
        nth(n) == CHOOSE l \in occ : Cardinality({j \in occ : j < l}) = n - 1
    IN  [n \in 1..Cardinality(occ) |-> SumHash(lines[nth(n)])]

\* both go.sum files of a scan checked: the one whose key has the hashes
\* A, B, A has two findings, at the 2nd and 3rd occurrence, the one with
\* A, B, B has one, at the 2nd
C12_Witness ==
    \E p, q \in DOMAIN fs :
        /\ Analyzed(p) /\ Base(p) = "go.sum" /\ Readable(p)
        /\ Analyzed(q) /\ Base(q) = "go.sum" /\ Readable(q)
        /\ LET lines == ScanLines(fs[p].bytes)
           IN  /\ lines # <<>> /\ IsSumEntry(lines[1])
               /\ HashSequence(lines, 1) = <<"h1:AAA=", "h1:BBB=", "h1:AAA=">>
               /\ FindingLines(p) = Occurrences(lines, 1) \ {1}
               /\ \A k \in FindingLines(p) : LineCount(p, k) = 1
        /\ LET lines == ScanLines(fs[q].bytes)
           IN  /\ lines # <<>> /\ IsSumEntry(lines[1])
               /\ HashSequence(lines, 1) = <<"h1:AAA=", "h1:BBB=", "h1:BBB=">>
               /\ FindingLines(q) = {2}
               /\ LineCount(q, 2) = 1

\* the names of the directories the walk does not enter
SkipSet == {".git", "vendor", "node_modules", "__pycache__", ".venv"}

\* the directories on the way from the root to a path, the root among them
DirsAbove(q) == {SubSeq(q, 1, n) : n \in 1..(Len(q) - 1)}

\* a directory on the way to the path has a name of the skip set
UnderSkipped(q) == \E d \in DirsAbove(q) : Base(d) \in SkipSet

\* the regular files below the root that the walk can reach: no directory on
\* the way is of the skip set, and every one of them can be read
ReachableFiles(root) ==
    {q \in DOMAIN fs :
        /\ q[1] = root
        /\ IsFile(q)
        /\ ~UnderSkipped(q)
        /\ \A d \in DirsAbove(q) : fs[d].ok}

\* the walk of the invocation in progress has run to its end
WalkCompleted == pc \in {"analyze", "done"} /\ walkErr = "nil" /\ workspaceRoot # ""

\* C13: after an uncancelled walk the list and the set of the index hold the
\* same paths, each once in the list: exactly the regular files reachable
\* from the root through no directory named in the skip set, a directory that
\* cannot be read being passed over and the walk going on after it; no file
\* under a skipped directory is ever classified or named by a finding.
C13_IndexIsReachableFiles ==
    /\ WalkCompleted =>
          /\ fileSet = ReachableFiles(workspaceRoot)
          /\ {allFiles[i] : i \in DOMAIN allFiles} = fileSet
          /\ Len(allFiles) = Cardinality(fileSet)
    /\ \A i \in DOMAIN allFiles : ~UnderSkipped(allFiles[i])
    /\ \A i \in DOMAIN findings : ~UnderSkipped(findings[i].file)
    /\ \A i \in DOMAIN ret.findings : ~UnderSkipped(ret.findings[i].file)

\* a completed scan of a tree with reportable files under skipped directories
\* and in a directory that cannot be read: the index holds a file that comes
\* after that directory, and the response names indexed files only
C13_Witness ==
    /\ Completed
    /\ fileSet = ReachableFiles(workspaceRoot)
    /\ ret.findings # <<>>
    /\ \E q \in DOMAIN fs : IsFile(q) /\ UnderSkipped(q) /\ isReleaseArtifact(Base(q))
    /\ \E q \in DOMAIN fs : IsFile(q) /\ UnderSkipped(q) /\ Base(q) \in checksumFileNames
    /\ \E q \in DOMAIN fs : IsFile(q) /\ UnderSkipped(q) /\ Base(q) \in lockfileNames
    /\ \E d \in DOMAIN fs :
          /\ fs[d].isDir /\ ~fs[d].ok
          /\ \E q \in DOMAIN fs : Dir(q) = d /\ IsFile(q) /\ q \notin fileSet
          /\ \E i \in DOMAIN allFiles :
                Len(allFiles[i]) > Len(d) /\ StrLess(Base(d), allFiles[i][Len(d)])

\* the file is a checksum manifest or a lockfile that cannot be opened, or a
\* package-lock.json that is readable and does not parse
FailsToLoad(path) ==
    \/ (Base(path) \in checksumFileNames \cup lockfileNames) /\ ~Readable(path)
    \/ Base(path) = "package-lock.json" /\ Readable(path) /\ ~Parseable(fs[path].json)

\* the line of a manifest, or of a go.sum, does not match the file's pattern
LineMismatches(path, text) ==
    IF Base(path) = "go.sum" THEN ~IsSumEntry(text) ELSE ~HashThenName(ManifestEntry(text))

\* the lines of a file with those that do not match its pattern left blank
Blanked(path, lines) ==
    [k \in DOMAIN lines |-> IF LineMismatches(path, lines[k]) THEN "" ELSE lines[k]]

\* the findings of the list that name the file
FindingsOf(fnd, path) == SelectSeq(fnd, LAMBDA f : f.file = path)

\* the findings the per-file checks give for a file once its failures are
\* taken out: nothing but the artifact findings for a file that fails to
\* load, and the line checks run over the lines that match
RecoveredFindings(path, order) ==
    LET name == Base(path)
        dir  == Dir(path)
    IN  (IF isReleaseArtifact(name)
         THEN checkMissingChecksum(path, name, dir, fileSet)
                \o checkUnsignedArtifact(path, name, dir, fileSet)
         ELSE <<>>)
        \o (IF FailsToLoad(path) THEN <<>>
            ELSE IF name \in checksumFileNames
            THEN checkChecksumLines(path, dir, Blanked(path, ScanLines(fs[path].bytes)), 1)
            ELSE IF name = "go.sum"
            THEN checkGoSumLines(path, Blanked(path, ScanLines(fs[path].bytes)), 1, <<>>)
            ELSE IF name = "package-lock.json"
            THEN checkNPMPackages(path, Unmarshal(fs[path].json).Packages, order)
            ELSE <<>>)

\* C14: a package-lock.json that does not parse, a manifest or lockfile that
\* cannot be opened and a manifest or go.sum line that does not match its
\* pattern have no finding; handleScan returns an error for no other reason
\* than the context error that ended the walk; and the findings of every file
\* are those the checks give with the failing files and lines taken out.
C14_FailuresRecoveredLocally ==
    /\ (ret.returned /\ ~ret.resp) => walkErr = "DeadlineExceeded"
    /\ \A path \in DOMAIN fs :
          Analyzed(path) =>
            /\ FailsToLoad(path) =>
                  \A i \in DOMAIN findings :
                      findings[i].file = path => findings[i].rule # "ARTINT-003"
            /\ (Readable(path) /\ Base(path) \in checksumFileNames \cup {"go.sum"}) =>
                  LET lines == ScanLines(fs[path].bytes)
                  IN  \A k \in DOMAIN lines :
                          LineMismatches(path, lines[k]) => LineCount(path, k) = 0
            /\ \E order \in analyzeOrders(path) :
                  SameFindings(FindingsOf(findings, path), RecoveredFindings(path, order))

\* a completed scan of a tree with a lockfile that is no JSON, a mistyped
\* lockfile, an unreadable manifest and go.sum, and lines that do not match:
\* the response has the findings of the lines and files around them
C14_Witness ==
    /\ Completed
    /\ ret.err = "nil"
    /\ \E p \in fileSet : Base(p) = "package-lock.json" /\ ~fs[p].json.valid
    /\ \E p \in fileSet :
          /\ Base(p) = "package-lock.json" /\ Readable(p)
          /\ fs[p].json.valid /\ ~Parseable(fs[p].json)
    /\ \E p \in fileSet : Base(p) \in checksumFileNames /\ ~Readable(p)
    /\ \E p \in fileSet : Base(p) = "go.sum" /\ ~Readable(p)
    /\ \E p \in fileSet :
          /\ Base(p) \in checksumFileNames /\ Readable(p)
          /\ \E k, l \in DOMAIN ScanLines(fs[p].bytes) :
                /\ LineMismatches(p, ScanLines(fs[p].bytes)[k])
                /\ k < l /\ LineCount(p, l) = 1
                /\ \E i \in DOMAIN ret.findings :
                      ret.findings[i].file = p /\ ret.findings[i].startLine = l
    /\ \E p \in fileSet :
          /\ Base(p) = "go.sum" /\ Readable(p)
          /\ \E k, l \in DOMAIN ScanLines(fs[p].bytes) :
                /\ LineMismatches(p, ScanLines(fs[p].bytes)[k])
                /\ k < l /\ LineCount(p, l) = 1
    /\ \E p \in fileSet :
          /\ Base(p) = "package-lock.json" /\ ~FailsToLoad(p)
          /\ FindingsOf(ret.findings, p) # <<>>

====
